---- MODULE Spec2Model ----
(***************************************************************************)
(* A model of src/utils.py: the corpus loader get_code, the tokenizer      *)
(* get_token_stream and the vocabulary builder create_vocab.  Each         *)
(* function is a small sequential program; its program counter names the   *)
(* source line about to run.                                               *)
(***************************************************************************)
EXTENDS Integers, Sequences, FiniteSets

VARIABLES
    \* get_code
    gc_pc, partition, gc_language, hub, raw_datasets, gc_result, gc_error,
    \* get_token_stream
    ts_pc, code, language, parse_tree, origin_tokens, token_as_strlist, ts_error,
    \* create_vocab
    cv_pc, tokenized_corpus, unique_words, for_iter, token2id, id2token, prev

gc_vars == <<gc_pc, partition, gc_language, hub, raw_datasets, gc_result, gc_error>>

ts_vars == <<ts_pc, code, language, parse_tree, origin_tokens, token_as_strlist, ts_error>>

cv_vars == <<cv_pc, tokenized_corpus, unique_words, for_iter, token2id, id2token, prev>>

vars == <<gc_vars, ts_vars, cv_vars>>

(***************************************************************************)
(* Strings that are compared are sequences of one-character strings; Ord   *)
(* is the code point, and StrLess is Python's < on str: by code point,     *)
(* position by position, a proper prefix first.                            *)
(***************************************************************************)
Ord(c) ==
    CASE c = "B" -> 66
      [] c = "a" -> 97
      [] c = "b" -> 98
      [] c = "c" -> 99

RECURSIVE StrLess(_, _)
StrLess(s, t) ==
    IF s = <<>> THEN t # <<>>
    ELSE IF t = <<>> THEN FALSE
    ELSE IF Ord(Head(s)) # Ord(Head(t)) THEN Ord(Head(s)) < Ord(Head(t))
    ELSE StrLess(Tail(s), Tail(t))

(***************************************************************************)
(* A dict is the sequence of its <<key, value>> items in insertion order.  *)
(***************************************************************************)
EmptyDict == <<>>

DictKeys(d) == {d[i][1] : i \in DOMAIN d}

DictValues(d) == {d[i][2] : i \in DOMAIN d}

DictGet(d, k) == d[CHOOSE i \in DOMAIN d : d[i][1] = k][2]

\* d[k] = v: an existing key keeps its place and takes the new value.
DictSet(d, k, v) ==
    IF k \in DictKeys(d)
    THEN [i \in DOMAIN d |-> IF d[i][1] = k THEN <<k, v>> ELSE d[i]]
    ELSE Append(d, <<k, v>>)

(***************************************************************************)
(* get_code.  The dataset source is hub: the languages it has, for each    *)
(* the partitions it has, for each the records in their native order.      *)
(***************************************************************************)
MaxRecords == 2

Records ==
    {[whole_func_string |-> "def f(): 'doc'", func_code_string |-> "def f():"],
     [whole_func_string |-> "def g(): pass", func_code_string |-> "def g(): pass"]}

Rows == UNION {[1..m -> Records] : m \in 0..MaxRecords}

Hubs ==
    UNION {[langs -> [parts -> Rows]] :
               langs \in {{}, {"python"}, {"python", "go"}},
               parts \in {{"train"}, {"train", "test"}}}

\* (a variant reading the column without the docstring)
CodeColumn == "func_code_string"

\* The column get_code keeps.
TextColumn == "whole_func_string"

\* split[column]: the column's value of every record, in the records' order.
Column(split, column) == [i \in 1..Len(split) |-> split[i][column]]

GetCodeCall ==
    /\ gc_pc = "idle"
    /\ \E p \in {"train", "test", "dev"}, l \in {"python", "go", "cobol"}, h \in Hubs :
           /\ partition' = p
           /\ gc_language' = l
           /\ hub' = h
    /\ gc_pc' = "L21"
    /\ UNCHANGED <<raw_datasets, gc_result, gc_error>>
    /\ UNCHANGED <<ts_vars, cv_vars>>

\* raw_datasets = load_dataset("code_search_net", language)
Line21 ==
    /\ gc_pc = "L21"
    /\ IF gc_language \in DOMAIN hub
       THEN /\ raw_datasets' = hub[gc_language]
            /\ gc_pc' = "L23"
            /\ UNCHANGED gc_error
       ELSE /\ gc_error' = "lookup"
            /\ gc_pc' = "raised"
            /\ UNCHANGED raw_datasets
    /\ UNCHANGED <<partition, gc_language, hub, gc_result>>
    /\ UNCHANGED <<ts_vars, cv_vars>>

\* return raw_datasets[partition]["whole_func_string"]
Line23 ==
    /\ gc_pc = "L23"
    /\ IF partition \in DOMAIN raw_datasets
       THEN /\ gc_result' = Column(raw_datasets[partition], TextColumn)
            /\ gc_pc' = "returned"
            /\ UNCHANGED gc_error
       ELSE /\ gc_error' = "lookup"
            /\ gc_pc' = "raised"
            /\ UNCHANGED gc_result
    /\ UNCHANGED <<partition, gc_language, hub, raw_datasets>>
    /\ UNCHANGED <<ts_vars, cv_vars>>

GcInit ==
    /\ gc_pc = "idle"
    /\ partition = "train"
    /\ gc_language = "python"
    /\ hub = <<>>
    /\ raw_datasets = <<>>
    /\ gc_result = <<>>
    /\ gc_error = "none"

(***************************************************************************)
(* get_token_stream.  The argument code is given by what the two library   *)
(* calls make of it: whether ast.parse accepts it, and the low-level token *)
(* stream tokenize.tokenize yields for it, each token a category and a     *)
(* text.                                                                   *)
(***************************************************************************)
MaxBody == 2

Tok(type, string) == [type |-> type, string |-> string]

\* One token of every category.  The stream of a source text starts with its
\* ENCODING token and ends with its ENDMARKER.
BodyTokens ==
    {Tok("NAME", "x"), Tok("OP", "="), Tok("NUMBER", "1"), Tok("STRING", "'x'"),
     Tok("COMMENT", "# x"), Tok("NEWLINE", "\n"), Tok("NL", "\n"),
     Tok("INDENT", "    "), Tok("DEDENT", ""), Tok("FSTRING_MIDDLE", "x")}

Streams ==
    {<<Tok("ENCODING", "utf-8")>> \o body \o <<Tok("ENDMARKER", "")>> :
         body \in UNION {[1..m -> BodyTokens] : m \in 0..MaxBody}}

\* "def f(x):\n    return x"
ExampleDef ==
    [parses |-> TRUE,
     tokens |-> <<Tok("ENCODING", "utf-8"), Tok("NAME", "def"), Tok("NAME", "f"),
                  Tok("OP", "("), Tok("NAME", "x"), Tok("OP", ")"), Tok("OP", ":"),
                  Tok("NEWLINE", "\n"), Tok("INDENT", "    "), Tok("NAME", "return"),
                  Tok("NAME", "x"), Tok("NEWLINE", ""), Tok("DEDENT", ""),
                  Tok("ENDMARKER", "")>>]

\* "# c\n\nif x:\n    y = 'a'\n"
ExampleAllKinds ==
    [parses |-> TRUE,
     tokens |-> <<Tok("ENCODING", "utf-8"), Tok("COMMENT", "# c"), Tok("NL", "\n"),
                  Tok("NL", "\n"), Tok("NAME", "if"), Tok("NAME", "x"), Tok("OP", ":"),
                  Tok("NEWLINE", "\n"), Tok("INDENT", "    "), Tok("NAME", "y"),
                  Tok("OP", "="), Tok("STRING", "'a'"), Tok("NEWLINE", "\n"),
                  Tok("DEDENT", ""), Tok("ENDMARKER", "")>>]

\* "x = = 1\n": not parseable, yet tokenize yields a full stream for it.
ExampleInvalid ==
    [parses |-> FALSE,
     tokens |-> <<Tok("ENCODING", "utf-8"), Tok("NAME", "x"), Tok("OP", "="),
                  Tok("OP", "="), Tok("NUMBER", "1"), Tok("NEWLINE", "\n"),
                  Tok("ENDMARKER", "")>>]

Codes ==
    [parses : BOOLEAN, tokens : Streams]
        \cup {ExampleDef, ExampleAllKinds, ExampleInvalid}

Languages == {"python", "java"}

\* (a variant with the assertion gone)
AnyLanguage(lang) == TRUE

\* language == "python", the condition asserted at line 39
LanguageSupported(lang) == lang = "python"

\* (a variant that skips the validation)
ParseSkipped(c) == TRUE

\* ast.parse(code): TRUE when it returns a tree, FALSE when it raises SyntaxError
AstParse(c) == c.parses

\* tokenize.tokenize(BytesIO(code.encode("utf-8")).readline)
Tokenize(c) == c.tokens

\* (variants of the filter: STRING left out of it; ENDMARKER added to it)
UselessWithoutString ==
    {"COMMENT", "NEWLINE", "NL", "INDENT", "DEDENT", "ENCODING"}

UselessWithEndmarker ==
    {"COMMENT", "NEWLINE", "NL", "INDENT", "DEDENT", "ENCODING", "STRING", "ENDMARKER"}

useless_token_type ==
    {"COMMENT", "NEWLINE", "NL", "INDENT", "DEDENT", "ENCODING", "STRING"}

GetTokenStreamCall ==
    /\ ts_pc = "idle"
    /\ \E c \in Codes, l \in Languages :
           /\ code' = c
           /\ language' = l
    /\ ts_pc' = "L39"
    /\ UNCHANGED <<parse_tree, origin_tokens, token_as_strlist, ts_error>>
    /\ UNCHANGED <<gc_vars, cv_vars>>

\* assert language == "python", "Only support python for now"
Line39 ==
    /\ ts_pc = "L39"
    /\ IF LanguageSupported(language)
       THEN /\ ts_pc' = "L51"
            /\ UNCHANGED ts_error
       ELSE /\ ts_error' = "AssertionError"
            /\ ts_pc' = "raised"
    /\ UNCHANGED <<code, language, parse_tree, origin_tokens, token_as_strlist>>
    /\ UNCHANGED <<gc_vars, cv_vars>>

\* parse_tree = ast.parse(code)
Line51 ==
    /\ ts_pc = "L51"
    /\ IF AstParse(code)
       THEN /\ parse_tree' = "Module"
            /\ ts_pc' = "L52"
            /\ UNCHANGED ts_error
       ELSE /\ ts_error' = "SyntaxError"
            /\ ts_pc' = "raised"
            /\ UNCHANGED parse_tree
    /\ UNCHANGED <<code, language, origin_tokens, token_as_strlist>>
    /\ UNCHANGED <<gc_vars, cv_vars>>

\* origin_tokens = tokenize.tokenize(...): the generator, nothing consumed yet
Line52 ==
    /\ ts_pc = "L52"
    /\ origin_tokens' = Tokenize(code)
    /\ token_as_strlist' = <<>>
    /\ ts_pc' = "L53"
    /\ UNCHANGED <<code, language, parse_tree, ts_error>>
    /\ UNCHANGED <<gc_vars, cv_vars>>

\* One round of the list comprehension of lines 53-55: the next token of the
\* generator, its string kept unless its type is in useless_token_type.
ListCompNext ==
    /\ ts_pc = "L53"
    /\ origin_tokens # <<>>
    /\ LET token == Head(origin_tokens)
       IN  token_as_strlist' =
               IF token.type \notin useless_token_type
               THEN Append(token_as_strlist, token.string)
               ELSE token_as_strlist
    /\ origin_tokens' = Tail(origin_tokens)
    /\ UNCHANGED <<ts_pc, code, language, parse_tree, ts_error>>
    /\ UNCHANGED <<gc_vars, cv_vars>>

ListCompDone ==
    /\ ts_pc = "L53"
    /\ origin_tokens = <<>>
    /\ ts_pc' = "L57"
    /\ UNCHANGED <<code, language, parse_tree, origin_tokens, token_as_strlist, ts_error>>
    /\ UNCHANGED <<gc_vars, cv_vars>>

\* return token_as_strlist
Line57 ==
    /\ ts_pc = "L57"
    /\ ts_pc' = "returned"
    /\ UNCHANGED <<code, language, parse_tree, origin_tokens, token_as_strlist, ts_error>>
    /\ UNCHANGED <<gc_vars, cv_vars>>

TsInit ==
    /\ ts_pc = "idle"
    /\ code = ExampleDef
    /\ language = "python"
    /\ parse_tree = "None"
    /\ origin_tokens = <<>>
    /\ token_as_strlist = <<>>
    /\ ts_error = "none"

(***************************************************************************)
(* The inputs of create_vocab: corpora of at most MaxDocs documents        *)
(* holding at most MaxCorpusTokens tokens in all, and the corpus of the    *)
(* documented example.                                                     *)
(***************************************************************************)
MaxDocs == 2

MaxCorpusTokens == 3

Tokens == {<<>>, <<"B">>, <<"a">>, <<"a", "b">>}

ExampleCorpus == << <<<<"a">>, <<"b">>>>, <<<<"b">>, <<"c">>>> >>

Docs(n) == UNION {[1..m -> Tokens] : m \in 0..n}

RECURSIVE CorporaOf(_, _)
CorporaOf(k, n) ==
    IF k = 0 THEN {<<>>}
    ELSE UNION {{<<d>> \o c : c \in CorporaOf(k - 1, n - Len(d))} : d \in Docs(n)}

Corpora == UNION {CorporaOf(k, MaxCorpusTokens) : k \in 0..MaxDocs} \cup {ExampleCorpus}

(***************************************************************************)
(* create_vocab                                                            *)
(***************************************************************************)
\* (a variant in which an empty document leaves an empty token behind)
RECURSIVE SumEmptyAsToken(_)
SumEmptyAsToken(corpus) ==
    IF corpus = <<>> THEN <<>>
    ELSE (IF Head(corpus) = <<>> THEN <<<<>>>> ELSE Head(corpus))
             \o SumEmptyAsToken(Tail(corpus))

\* sum(tokenized_corpus, start=[]): the documents concatenated in order.
RECURSIVE Sum(_)
Sum(corpus) ==
    IF corpus = <<>> THEN <<>> ELSE Head(corpus) \o Sum(Tail(corpus))

\* set(...)
ToSet(list) == {list[i] : i \in DOMAIN list}

\* The elements of a list in the order of their first appearance.
RECURSIVE FirstSeen(_)
FirstSeen(list) ==
    IF list = <<>> THEN <<>>
    ELSE LET rest == FirstSeen(SubSeq(list, 1, Len(list) - 1))
             last == list[Len(list)]
         IN  IF last \in ToSet(rest) THEN rest ELSE Append(rest, last)

\* sorted(unique_words): ascending by StrLess.
RECURSIVE Sorted(_)
Sorted(words) ==
    IF words = {} THEN <<>>
    ELSE LET least == CHOOSE w \in words : \A x \in words \ {w} : StrLess(w, x)
         IN  <<least>> \o Sorted(words \ {least})

\* (variants of the iteration order: the set iterated unsorted, in the order
\* the corpus gives the words; and sorted(..., reverse=True))
FirstSeenWords == FirstSeen(Sum(tokenized_corpus))

RECURSIVE Reversed(_)
Reversed(list) ==
    IF list = <<>> THEN <<>> ELSE Append(Reversed(Tail(list)), Head(list))

SortedDescending == Reversed(Sorted(unique_words))

\* The words the for statement of line 74 iterates over.
SortedUniqueWords == Sorted(unique_words)

\* (a variant numbering the tokens from 1)
OneBasedId(d) == Len(d) + 1

\* len(token2id), the id the loop body gives to the next token.
NextId(d) == Len(d)

\* (a variant with a truthiness filter, "... if v", which loses id 0)
RECURSIVE InvertTruthyItems(_)
InvertTruthyItems(d) ==
    IF d = <<>> THEN EmptyDict
    ELSE LET item == d[Len(d)]
             rest == InvertTruthyItems(SubSeq(d, 1, Len(d) - 1))
         IN  IF item[2] = 0 THEN rest ELSE DictSet(rest, item[2], item[1])

\* {v: k for k, v in token2id.items()}: the items in insertion order, a later
\* item with the same v replacing the earlier one.
RECURSIVE InvertItems(_)
InvertItems(d) ==
    IF d = <<>> THEN EmptyDict
    ELSE LET item == d[Len(d)]
         IN  DictSet(InvertItems(SubSeq(d, 1, Len(d) - 1)), item[2], item[1])

CreateVocabCall ==
    /\ cv_pc = "idle"
    /\ \E corpus \in Corpora : tokenized_corpus' = corpus
    /\ cv_pc' = "L72"
    /\ UNCHANGED <<unique_words, for_iter, token2id, id2token, prev>>
    /\ UNCHANGED <<gc_vars, ts_vars>>

\* unique_words = set(sum(tokenized_corpus, start=[]))
Line72 ==
    /\ cv_pc = "L72"
    /\ unique_words' = ToSet(Sum(tokenized_corpus))
    /\ cv_pc' = "L73"
    /\ UNCHANGED <<tokenized_corpus, for_iter, token2id, id2token, prev>>
    /\ UNCHANGED <<gc_vars, ts_vars>>

\* token2id = {} and the for statement's iterator over sorted(unique_words)
Line73 ==
    /\ cv_pc = "L73"
    /\ token2id' = EmptyDict
    /\ for_iter' = SortedUniqueWords
    /\ cv_pc' = "L74"
    /\ UNCHANGED <<tokenized_corpus, unique_words, id2token, prev>>
    /\ UNCHANGED <<gc_vars, ts_vars>>

\* for token in ...: token2id[token] = len(token2id)
ForBody ==
    /\ cv_pc = "L74"
    /\ for_iter # <<>>
    /\ token2id' = DictSet(token2id, Head(for_iter), NextId(token2id))
    /\ for_iter' = Tail(for_iter)
    /\ UNCHANGED <<cv_pc, tokenized_corpus, unique_words, id2token, prev>>
    /\ UNCHANGED <<gc_vars, ts_vars>>

ForExit ==
    /\ cv_pc = "L74"
    /\ for_iter = <<>>
    /\ cv_pc' = "L76"
    /\ UNCHANGED <<tokenized_corpus, unique_words, for_iter, token2id, id2token, prev>>
    /\ UNCHANGED <<gc_vars, ts_vars>>

\* id2token = {v: k for k, v in token2id.items()}
Line76 ==
    /\ cv_pc = "L76"
    /\ id2token' = InvertItems(token2id)
    /\ cv_pc' = "L78"
    /\ UNCHANGED <<tokenized_corpus, unique_words, for_iter, token2id, prev>>
    /\ UNCHANGED <<gc_vars, ts_vars>>

\* return token2id, id2token
Line78 ==
    /\ cv_pc = "L78"
    /\ cv_pc' = "returned"
    /\ UNCHANGED <<tokenized_corpus, unique_words, for_iter, token2id, id2token, prev>>
    /\ UNCHANGED <<gc_vars, ts_vars>>

CreateVocabStep == Line72 \/ Line73 \/ ForBody \/ ForExit \/ Line76 \/ Line78

CvInit ==
    /\ cv_pc = "idle"
    /\ tokenized_corpus = <<>>
    /\ unique_words = {}
    /\ for_iter = <<>>
    /\ token2id = EmptyDict
    /\ id2token = EmptyDict
    /\ prev = <<>>

\* The distinct tokens of a corpus.
CorpusTokens(corpus) ==
    UNION {{corpus[i][j] : j \in DOMAIN corpus[i]} : i \in DOMAIN corpus}

\* A caller that keeps what the first call returned (with the distinct tokens
\* and the number of documents of its corpus) and calls create_vocab again.
CreateVocabAgain ==
    /\ cv_pc = "returned"
    /\ prev = <<>>
    /\ prev' = <<[tokens |-> CorpusTokens(tokenized_corpus),
                  ndocs |-> Len(tokenized_corpus),
                  token2id |-> token2id,
                  id2token |-> id2token]>>
    /\ cv_pc' = "idle"
    /\ tokenized_corpus' = <<>>
    /\ unique_words' = {}
    /\ for_iter' = <<>>
    /\ token2id' = EmptyDict
    /\ id2token' = EmptyDict
    /\ UNCHANGED <<gc_vars, ts_vars>>

Init == GcInit /\ TsInit /\ CvInit

VocabNext == CreateVocabCall \/ CreateVocabStep

SpecVocab == Init /\ [][VocabNext]_vars

VocabPairNext == CreateVocabCall \/ CreateVocabStep \/ CreateVocabAgain

SpecVocabPair == Init /\ [][VocabPairNext]_vars

TokensNext ==
    \/ GetTokenStreamCall
    \/ Line39
    \/ Line51
    \/ Line52
    \/ ListCompNext
    \/ ListCompDone
    \/ Line57

SpecTokens == Init /\ [][TokensNext]_vars

CodeNext == GetCodeCall \/ Line21 \/ Line23

SpecCode == Init /\ [][CodeNext]_vars

(***************************************************************************)
(* The claims about create_vocab.  Returned holds when create_vocab has    *)
(* returned token2id and id2token for tokenized_corpus.                    *)
(***************************************************************************)
Returned == cv_pc = "returned"

\* The items of a dict as a set: two dicts are equal when their items are.
Items(d) == {d[i] : i \in DOMAIN d}

UniqueKeys(d) == \A i, j \in DOMAIN d : d[i][1] = d[j][1] => i = j

\* C1: when create_vocab returns, the keys of token2id are exactly the distinct
\* tokens of the corpus, each key once, no two tokens share an id, and the ids
\* are exactly 0 .. n-1 for n the number of distinct tokens.
C1_Token2idBijection ==
    Returned =>
        LET n == Cardinality(CorpusTokens(tokenized_corpus))
        IN  /\ DictKeys(token2id) = CorpusTokens(tokenized_corpus)
            /\ UniqueKeys(token2id)
            /\ \A i, j \in DOMAIN token2id : token2id[i][2] = token2id[j][2] => i = j
            /\ DictValues(token2id) = 0 .. (n - 1)

\* create_vocab has returned for a corpus of two documents that share a token
\* and hold three distinct ones.
C1_Witness ==
    /\ Returned
    /\ Len(tokenized_corpus) = 2
    /\ CorpusTokens(<<tokenized_corpus[1]>>) \cap CorpusTokens(<<tokenized_corpus[2]>>) # {}
    /\ Cardinality(CorpusTokens(tokenized_corpus)) = 3
    /\ Len(token2id) = 3

\* C2: when create_vocab returns, id2token is the exact inverse of token2id:
\* id2token[token2id[t]] = t for every distinct token t of the corpus,
\* token2id[id2token[i]] = i for every key i of id2token, and the keys of
\* id2token are the values of token2id.
C2_Id2tokenInverse ==
    Returned =>
        /\ UniqueKeys(id2token)
        /\ DictKeys(id2token) = DictValues(token2id)
        /\ \A t \in CorpusTokens(tokenized_corpus) :
               /\ t \in DictKeys(token2id)
               /\ DictGet(token2id, t) \in DictKeys(id2token)
               /\ DictGet(id2token, DictGet(token2id, t)) = t
        /\ \A i \in DictKeys(id2token) :
               /\ DictGet(id2token, i) \in DictKeys(token2id)
               /\ DictGet(token2id, DictGet(id2token, i)) = i

\* create_vocab has returned an id2token of at least two entries, built from a
\* corpus in which a token is repeated.
C2_Witness ==
    /\ Returned
    /\ Len(id2token) >= 2
    /\ \E i \in DOMAIN tokenized_corpus :
           Len(tokenized_corpus[i]) > Cardinality(CorpusTokens(<<tokenized_corpus[i]>>))

\* C3: ids follow the ascending string order of the tokens, from 0: s < t
\* implies token2id[s] < token2id[t], token2id[t] is the number of distinct
\* corpus tokens smaller than t, and the corpus [["a","b"],["b","c"]] gives
\* a:0, b:1, c:2 (and the inverse for id2token).
C3_SortedIds ==
    Returned =>
        LET words == CorpusTokens(tokenized_corpus)
        IN  /\ DictKeys(token2id) = words
            /\ \A s, t \in words :
                   StrLess(s, t) => DictGet(token2id, s) < DictGet(token2id, t)
            /\ \A t \in words :
                   DictGet(token2id, t) = Cardinality({s \in words : StrLess(s, t)})
            /\ tokenized_corpus = ExampleCorpus =>
                   /\ Items(token2id) = {<< <<"a">>, 0>>, << <<"b">>, 1>>, << <<"c">>, 2>>}
                   /\ Items(id2token) = {<<0, <<"a">> >>, <<1, <<"b">> >>, <<2, <<"c">> >>}

\* create_vocab has returned for a corpus whose tokens first appear in an order
\* that is not the sorted one: an upper-case token, a token and its proper
\* prefix are all there, the smallest of them not first.
C3_Witness ==
    /\ Returned
    /\ {<<"B">>, <<"a">>, <<"a", "b">>} \subseteq CorpusTokens(tokenized_corpus)
    /\ tokenized_corpus[1] # <<>>
    /\ tokenized_corpus[1][1] = <<"a", "b">>
    /\ DictGet(token2id, <<"a", "b">>) = 2

\* C5: create_vocab runs to its return on every corpus (no step before the
\* return is stuck), a corpus with no token (no document, or only empty ones)
\* gives two empty mappings, and empty documents add nothing to the tokens of
\* the others.
C5_DegenerateCorpora ==
    LET nonempty == SelectSeq(tokenized_corpus, LAMBDA doc : doc # <<>>)
    IN  /\ cv_pc \notin {"idle", "returned"} => ENABLED CreateVocabStep
        /\ Returned /\ nonempty = <<>> => token2id = EmptyDict /\ id2token = EmptyDict
        /\ Returned =>
               /\ DictKeys(token2id) = CorpusTokens(nonempty)
               /\ Len(token2id) = Cardinality(CorpusTokens(nonempty))
               /\ Len(id2token) = Len(token2id)

\* create_vocab has returned two empty mappings for a corpus of empty documents.
C5_Witness ==
    /\ Returned
    /\ Len(tokenized_corpus) = 2
    /\ \A i \in DOMAIN tokenized_corpus : tokenized_corpus[i] = <<>>
    /\ token2id = EmptyDict
    /\ id2token = EmptyDict

\* C4 (under SpecVocabPair): the result depends only on the set of distinct
\* tokens: whenever a second call returns for a corpus with the same distinct
\* tokens as the first call's corpus, both its mappings equal the first call's.
C4_DependsOnTokenSet ==
    Returned /\ prev # <<>> /\ prev[1].tokens = CorpusTokens(tokenized_corpus) =>
        /\ Items(token2id) = Items(prev[1].token2id)
        /\ Items(id2token) = Items(prev[1].id2token)
        /\ Len(token2id) = Len(prev[1].token2id)
        /\ Len(id2token) = Len(prev[1].id2token)

\* A second call has returned for a corpus with the same three distinct tokens
\* as the first call's but another number of documents, its first token not
\* the smallest.
C4_Witness ==
    /\ Returned
    /\ prev # <<>>
    /\ prev[1].tokens = CorpusTokens(tokenized_corpus)
    /\ prev[1].ndocs # Len(tokenized_corpus)
    /\ Cardinality(prev[1].tokens) = 3
    /\ tokenized_corpus[1] # <<>>
    /\ DictGet(token2id, tokenized_corpus[1][1]) # 0

(***************************************************************************)
(* The claims about get_token_stream.                                      *)
(***************************************************************************)
\* C6: with a language other than "python" the call fails with the
\* unsupported-language error at the assertion: it never reaches the parse
\* (line 51) or the tokenizer, builds no token list and does not return,
\* whether or not the code would parse.
C6_UnsupportedLanguage ==
    ts_pc # "idle" /\ language # "python" =>
        /\ ts_pc \in {"L39", "raised"}
        /\ ts_pc = "L39" => ENABLED Line39
        /\ ts_pc = "raised" => ts_error = "AssertionError"
        /\ ts_pc = "L39" => ts_error = "none"
        /\ parse_tree = "None"
        /\ origin_tokens = <<>>
        /\ token_as_strlist = <<>>

\* The call has failed with the unsupported-language error on code that would
\* not have parsed either.
C6_Witness ==
    /\ ts_pc = "raised"
    /\ language = "java"
    /\ ~code.parses
    /\ code = ExampleInvalid
    /\ ts_error = "AssertionError"

\* C7: with language "python" and code that does not parse, the call fails
\* with a syntax error at the parse of line 51: it never reaches the tokenizer
\* (line 52 on), builds no token list, not even a prefix, and does not return.
C7_SyntaxErrorBeforeTokenizing ==
    ts_pc # "idle" /\ language = "python" /\ ~code.parses =>
        /\ ts_pc \in {"L39", "L51", "raised"}
        /\ ts_pc = "L51" => ENABLED Line51
        /\ ts_pc = "raised" => ts_error = "SyntaxError"
        /\ ts_pc # "raised" => ts_error = "none"
        /\ parse_tree = "None"
        /\ origin_tokens = <<>>
        /\ token_as_strlist = <<>>

\* The call has failed with a syntax error on code for which the tokenizer
\* alone would have yielded a whole stream.
C7_Witness ==
    /\ ts_pc = "raised"
    /\ language = "python"
    /\ code = ExampleInvalid
    /\ ts_error = "SyntaxError"
    /\ token_as_strlist = <<>>

\* The seven discarded categories, as the claims list them.
DiscardedCategories ==
    {"COMMENT", "NEWLINE", "NL", "INDENT", "DEDENT", "ENCODING", "STRING"}

\* The tokens of the low-level stream already taken from the generator.
Consumed == SubSeq(code.tokens, 1, Len(code.tokens) - Len(origin_tokens))

KeptOf(tokens) == SelectSeq(tokens, LAMBDA t : t.type \notin DiscardedCategories)

\* Every change of the output appends the text of the generator's next token,
\* and that token's category is not a discarded one.
OutputGrowsByKeptToken ==
    token_as_strlist' # token_as_strlist =>
        /\ ts_pc = "L53"
        /\ origin_tokens # <<>>
        /\ Head(origin_tokens).type \notin DiscardedCategories
        /\ token_as_strlist' = Append(token_as_strlist, Head(origin_tokens).string)

\* Taking a token of a discarded category leaves the output as it is.
DiscardedTokenAddsNothing ==
    (/\ ts_pc = "L53"
     /\ origin_tokens # <<>>
     /\ Head(origin_tokens).type \in DiscardedCategories) =>
        token_as_strlist' = token_as_strlist

C9_ExactSubsequence ==
    ts_pc = "returned" =>
        LET kept == KeptOf(code.tokens)
        IN  /\ token_as_strlist = [i \in 1..Len(kept) |-> kept[i].string]
            /\ token_as_strlist # <<>>
            /\ token_as_strlist[Len(token_as_strlist)] = ""
            /\ code = ExampleDef =>
                   token_as_strlist =
                       <<"def", "f", "(", "x", ")", ":", "return", "x", "">>

\* The call has returned the nine tokens of the documented example.
C9_Witness ==
    /\ ts_pc = "returned"
    /\ code = ExampleDef
    /\ Len(code.tokens) = 14
    /\ Len(token_as_strlist) = 9

(***************************************************************************)
(* The claim about get_code.                                               *)
(***************************************************************************)
Available == gc_language \in DOMAIN hub /\ partition \in DOMAIN hub[gc_language]

\* C10: for an available (partition, language) pair get_code returns as many
\* elements as the split has records, the i-th the whole_func_string of the
\* i-th record; for a language or partition that is not available the call
\* ends in the lookup error and returns nothing.
C10_GetCodeColumn ==
    gc_pc # "idle" =>
        /\ gc_pc \in {"L21", "L23"} => ENABLED CodeNext
        /\ Available => gc_pc # "raised" /\ gc_error = "none"
        /\ Available /\ gc_pc = "returned" =>
               LET split == hub[gc_language][partition]
               IN  /\ Len(gc_result) = Len(split)
                   /\ \A i \in 1..Len(split) : gc_result[i] = split[i].whole_func_string
        /\ ~Available =>
               /\ gc_pc # "returned"
               /\ gc_result = <<>>
               /\ gc_pc = "raised" => gc_error = "lookup"

\* get_code has returned two different texts from a split that is not the
\* only one of the hub.
C10_Witness ==
    /\ gc_pc = "returned"
    /\ gc_language = "go"
    /\ partition = "test"
    /\ Len(gc_result) = 2
    /\ gc_result[1] # gc_result[2]
    /\ hub["python"]["train"] # hub["go"]["test"]
    /\ gc_result[1] = "def f(): 'doc'"

====
